---- MODULE Spec2Model ----
(***************************************************************************)
(* Model of src/workflow/orchestrator.ts: the launch-argument builder, the *)
(* module-level tool-process configuration and allow-list, getOptions, and *)
(* the async generator streamAgent driven by a pulling consumer.           *)
(***************************************************************************)
EXTENDS Integers, Sequences, FiniteSets, TLC

VARIABLES
  \* ---- streamAgent (orchestrator.ts:182-207) ----
  rawMsgs,     \* the messages the agent runtime's query() will deliver, in order
  rawFails,    \* TRUE: the source throws after delivering rawMsgs instead of ending
  requested,   \* number of times the generator asked the source for a message
  pc,          \* the generator's position (source line it is at)
  i,           \* index of the block the current for..of pass is at
  message,     \* the loop variable `message` (<<>> before the first one)
  running,     \* TRUE while the generator executes on behalf of a pending pull
  out,         \* the events the consumer has received, in order
  outSrc,      \* for each received event, the index of the raw message it came from (0: none)
  consumer,    \* "iterating" | "ended" | "failed" | "abandoned"
  pulls        \* number of iterator.next() calls the consumer has made

VARIABLES
  \* ---- module state and getOptions (orchestrator.ts:9-40, 171-180) ----
  env,                         \* process.env: variable name -> value, absent names not in DOMAIN
  loaded,                      \* the module's top-level statements have run
  CHROME_DEVTOOLS_MCP_CONFIG,  \* the module-level config object (one object, shared by reference)
  ALLOWED_TOOLS,               \* the module-level array (one object, shared by reference)
  options,                     \* the objects getOptions has returned, as their holders now see them
  calls,                       \* per getOptions call: its argument, process.env then, and what it returned
  touched,                     \* indices of returned objects whose holder has modified something through them
  launch                       \* the call of buildChromeDevToolsArgs at line 23: env then, and its result

streamVars == <<rawMsgs, rawFails, requested, pc, i, message, running, out, outSrc, consumer, pulls>>

configVars == <<env, loaded, CHROME_DEVTOOLS_MCP_CONFIG, ALLOWED_TOOLS, options, calls, touched, launch>>

vars == <<streamVars, configVars>>

\* ------------------------------------------------------------------------
\* Bounds of the model
MaxBlocks == 2      \* longest content array of an enumerated raw message
MaxMsgs == 3        \* longest raw sequence built from CoreMessages
MaxCalls == 2       \* getOptions calls in one run

\* ------------------------------------------------------------------------
\* Optional fields: a JavaScript object is a function whose DOMAIN is the set
\* of fields that are present.
Has(r, f) == f \in DOMAIN r

EmptyObj == [x \in {} |-> 0]

\* Content blocks a message may carry.
Blocks ==
  { [type |-> "text", text |-> "Hello"],
    [type |-> "text", text |-> ""],
    [type |-> "text"],
    [type |-> "tool_use", name |-> "navigate_page"],
    [type |-> "thinking"] }

SeqsUpTo(S, n) == UNION { [1..k -> S] : k \in 0..n }

\* message.message.usage values: {} , one count omitted, both given.
Usages ==
  { EmptyObj,
    [output_tokens |-> 7],
    [input_tokens |-> 3, output_tokens |-> 0],
    [input_tokens |-> 3, output_tokens |-> 7] }

\* message.message values: with or without content, with or without usage.
Envelopes ==
  LET contents == { EmptyObj } \cup { [content |-> c] : c \in SeqsUpTo(Blocks, MaxBlocks) }
      usages   == { EmptyObj } \cup { [usage |-> u] : u \in Usages }
  IN  { c @@ u : c \in contents, u \in usages }

\* Every raw message shape the generator's conditions distinguish.
AllMessages ==
  LET types     == { [type |-> "assistant"], [type |-> "user"], [type |-> "result"] }
      envelopes == { EmptyObj } \cup { [message |-> e] : e \in Envelopes }
      results   == { EmptyObj } \cup { [result |-> r] : r \in {"", "Done"} }
  IN  { t @@ e @@ r : t \in types, e \in envelopes, r \in results }

\* The messages longer raw sequences are built from.
CoreMessages ==
  { [type |-> "assistant", message |-> [content |-> << [type |-> "text", text |-> "Hello"] >>]],
    [type |-> "assistant", message |-> [content |-> << [type |-> "tool_use", name |-> "navigate_page"] >>]],
    [type |-> "result", result |-> "Done"],
    [type |-> "assistant",
     message |-> [content |-> << [type |-> "tool_use", name |-> "click"],
                                 [type |-> "text", text |-> "Hi"],
                                 [type |-> "tool_use", name |-> "fill"],
                                 [type |-> "text", text |-> "there"] >>,
                  usage |-> [input_tokens |-> 3, output_tokens |-> 7]],
     result |-> "Ok"],
    [type |-> "system"] }

RawSequences == SeqsUpTo(CoreMessages, MaxMsgs) \cup { <<m>> : m \in AllMessages }

\* ------------------------------------------------------------------------
\* streamAgent

InitStream ==
  /\ rawMsgs \in RawSequences
  /\ rawFails \in BOOLEAN
  /\ requested = 0
  /\ pc = "L183"
  /\ i = 1
  /\ message = EmptyObj
  /\ running = FALSE
  /\ out = <<>>
  /\ outSrc = <<>>
  /\ consumer = "iterating"
  /\ pulls = 0

\* `yield ev`: the pending pull resolves with ev and the generator suspends.
Yield(ev, src) ==
  /\ out' = Append(out, ev)
  /\ outSrc' = Append(outSrc, src)
  /\ running' = FALSE

NoYield == UNCHANGED <<out, outSrc, running>>

\* The consumer's iterator.next(): resumes the suspended generator.
\* (The first one evaluates query({ prompt, options: getOptions(true) }); the
\* options object is read by the runtime only and changes no state here.)
Pull ==
  /\ consumer = "iterating"
  /\ ~running
  /\ pc \notin {"completed", "threw", "returned"}
  /\ running' = TRUE
  /\ pulls' = pulls + 1
  /\ UNCHANGED <<rawMsgs, rawFails, requested, pc, i, message, out, outSrc, consumer>>
  /\ UNCHANGED configVars

\* Variant of NextMessage that fetches ahead of the consumer's pull.
NextMessageEager ==
  /\ pc = "L183"
  /\ consumer = "iterating"
  /\ requested < Len(rawMsgs)
  /\ requested' = requested + 1
  /\ message' = rawMsgs[requested + 1]
  /\ pc' = "L185"
  /\ i' = 1
  /\ NoYield
  /\ UNCHANGED <<rawMsgs, rawFails, consumer>>
  /\ UNCHANGED <<pulls, configVars>>

\* line 183: the for await asks the source and it delivers the next message.
NextMessage ==
  /\ running /\ pc = "L183"
  /\ requested < Len(rawMsgs)
  /\ requested' = requested + 1
  /\ message' = rawMsgs[requested + 1]
  /\ pc' = "L185"
  /\ i' = 1
  /\ NoYield
  /\ UNCHANGED <<rawMsgs, rawFails, consumer>>
  /\ UNCHANGED <<pulls, configVars>>

\* Variant of SourceDone that skips the final yield when nothing was emitted.
SourceDoneSilent ==
  /\ running /\ pc = "L183"
  /\ requested = Len(rawMsgs) /\ ~rawFails
  /\ requested' = requested + 1
  /\ pc' = IF out = <<>> THEN "L207" ELSE "L206"
  /\ NoYield
  /\ UNCHANGED <<rawMsgs, rawFails, i, message, consumer>>
  /\ UNCHANGED <<pulls, configVars>>

\* line 183 -> 206: the source signals the end; the loop exits.
SourceDone ==
  /\ running /\ pc = "L183"
  /\ requested = Len(rawMsgs) /\ ~rawFails
  /\ requested' = requested + 1
  /\ pc' = "L206"
  /\ NoYield
  /\ UNCHANGED <<rawMsgs, rawFails, i, message, consumer>>
  /\ UNCHANGED <<pulls, configVars>>

\* Variant of SourceThrows that catches the rejection and still reaches line 206.
SourceThrowsMasked ==
  /\ running /\ pc = "L183"
  /\ requested = Len(rawMsgs) /\ rawFails
  /\ requested' = requested + 1
  /\ pc' = "L206"
  /\ NoYield
  /\ UNCHANGED <<rawMsgs, rawFails, i, message, consumer>>
  /\ UNCHANGED <<pulls, configVars>>

\* line 183: the source rejects; nothing catches it, the pending pull rejects.
SourceThrows ==
  /\ running /\ pc = "L183"
  /\ requested = Len(rawMsgs) /\ rawFails
  /\ requested' = requested + 1
  /\ pc' = "threw"
  /\ running' = FALSE
  /\ consumer' = "failed"
  /\ UNCHANGED <<rawMsgs, rawFails, i, message, out, outSrc>>
  /\ UNCHANGED <<pulls, configVars>>

\* lines 184 and 191: message.type === "assistant" && message.message?.content
hasContent(m) == m.type = "assistant" /\ Has(m, "message") /\ Has(m.message, "content")

\* Variant of TextPass that emits text and tool_use blocks in one positional pass.
TextPassPositional ==
  /\ running /\ pc = "L185"
  /\ IF hasContent(message) /\ i <= Len(message.message.content)
     THEN LET block == message.message.content[i] IN
          /\ i' = i + 1
          /\ pc' = pc
          /\ IF block.type = "text" /\ Has(block, "text") /\ block.text # ""
             THEN Yield([type |-> "text", text |-> block.text], requested)
             ELSE IF block.type = "tool_use" /\ Has(block, "name")
                  THEN Yield([type |-> "tool", name |-> block.name], requested)
                  ELSE NoYield
     ELSE /\ pc' = "L198"
          /\ i' = 1
          /\ NoYield
  /\ UNCHANGED <<rawMsgs, rawFails, requested, message, consumer>>
  /\ UNCHANGED <<pulls, configVars>>

\* lines 184-190: first pass over the blocks, text blocks only.
TextPass ==
  /\ running /\ pc = "L185"
  /\ IF hasContent(message) /\ i <= Len(message.message.content)
     THEN LET block == message.message.content[i] IN
          /\ i' = i + 1
          /\ pc' = pc
          /\ IF block.type = "text" /\ Has(block, "text") /\ block.text # ""
             THEN Yield([type |-> "text", text |-> block.text], requested)
             ELSE NoYield
     ELSE /\ pc' = "L192"
          /\ i' = 1
          /\ NoYield
  /\ UNCHANGED <<rawMsgs, rawFails, requested, message, consumer>>
  /\ UNCHANGED <<pulls, configVars>>

\* lines 191-197: second pass over the same blocks, tool_use blocks only.
ToolPass ==
  /\ running /\ pc = "L192"
  /\ IF hasContent(message) /\ i <= Len(message.message.content)
     THEN LET block == message.message.content[i] IN
          /\ i' = i + 1
          /\ pc' = pc
          /\ IF block.type = "tool_use"
             THEN Yield(IF Has(block, "name")
                        THEN [type |-> "tool", name |-> block.name]
                        ELSE [type |-> "tool"], requested)
             ELSE NoYield
     ELSE /\ pc' = "L198"
          /\ i' = 1
          /\ NoYield
  /\ UNCHANGED <<rawMsgs, rawFails, requested, message, consumer>>
  /\ UNCHANGED <<pulls, configVars>>

\* line 200: u.input_tokens || 0
orZero(u, f) == IF Has(u, f) THEN u[f] ELSE 0

\* Variant of UsageStep that reports usage of assistant messages only.
UsageStepAssistantOnly ==
  /\ running /\ pc = "L198"
  /\ pc' = "L202"
  /\ IF message.type = "assistant" /\ Has(message, "message") /\ Has(message.message, "usage")
     THEN LET u == message.message.usage IN
          Yield([type |-> "usage", input |-> orZero(u, "input_tokens"),
                 output |-> orZero(u, "output_tokens")], requested)
     ELSE NoYield
  /\ UNCHANGED <<rawMsgs, rawFails, requested, i, message, consumer>>
  /\ UNCHANGED <<pulls, configVars>>

\* lines 198-201
UsageStep ==
  /\ running /\ pc = "L198"
  /\ pc' = "L202"
  /\ IF Has(message, "message") /\ Has(message.message, "usage")
     THEN LET u == message.message.usage IN
          Yield([type |-> "usage", input |-> orZero(u, "input_tokens"),
                 output |-> orZero(u, "output_tokens")], requested)
     ELSE NoYield
  /\ UNCHANGED <<rawMsgs, rawFails, requested, i, message, consumer>>
  /\ UNCHANGED <<pulls, configVars>>

\* lines 202-205
ResultStep ==
  /\ running /\ pc = "L202"
  /\ pc' = "L183"
  /\ IF Has(message, "result") /\ message.result # ""
     THEN Yield([type |-> "result", text |-> message.result], requested)
     ELSE NoYield
  /\ UNCHANGED <<rawMsgs, rawFails, requested, i, message, consumer>>
  /\ UNCHANGED <<pulls, configVars>>

\* line 206
YieldDone ==
  /\ running /\ pc = "L206"
  /\ pc' = "L207"
  /\ Yield([type |-> "done"], 0)
  /\ UNCHANGED <<rawMsgs, rawFails, requested, i, message, consumer>>
  /\ UNCHANGED <<pulls, configVars>>

\* line 207: the function body ends; the pull resolves with done: true.
Return ==
  /\ running /\ pc = "L207"
  /\ pc' = "completed"
  /\ running' = FALSE
  /\ consumer' = "ended"
  /\ UNCHANGED <<rawMsgs, rawFails, requested, i, message, out, outSrc>>
  /\ UNCHANGED <<pulls, configVars>>

\* Variant of Abandon in which closing the generator flushes a final done event.
AbandonFlush ==
  /\ consumer = "iterating"
  /\ ~running
  /\ pc \notin {"completed", "threw", "returned"}
  /\ consumer' = "abandoned"
  /\ pc' = "returned"
  /\ out' = Append(out, [type |-> "done"])
  /\ outSrc' = Append(outSrc, 0)
  /\ UNCHANGED <<rawMsgs, rawFails, requested, i, message, running>>
  /\ UNCHANGED <<pulls, configVars>>

\* The consumer leaves its loop between two pulls: it either just stops
\* pulling or calls iterator.return(), which finishes the suspended generator.
Abandon ==
  /\ consumer = "iterating"
  /\ ~running
  /\ pc \notin {"completed", "threw", "returned"}
  /\ consumer' = "abandoned"
  /\ \E closes \in BOOLEAN : pc' = IF closes THEN "returned" ELSE pc
  /\ UNCHANGED <<rawMsgs, rawFails, requested, i, message, running, out, outSrc>>
  /\ UNCHANGED <<pulls, configVars>>

streamAgent ==
  \/ Pull
  \/ NextMessage
  \/ SourceDone
  \/ SourceThrows
  \/ TextPass
  \/ ToolPass
  \/ UsageStep
  \/ ResultStep
  \/ YieldDone
  \/ Return
  \/ Abandon

\* ------------------------------------------------------------------------
\* buildChromeDevToolsArgs, the module-level constants, getOptions

\* line 10-11
baseArgs ==
  << "-y", "chrome-devtools-mcp@latest", "--headless", "--isolated",
     "--no-category-emulation", "--no-category-performance", "--no-category-network" >>

\* Variant of isContainer that tests CHROME_PATH for truthiness only.
isContainerTruthy(e) == Has(e, "CHROME_PATH") /\ e["CHROME_PATH"] # ""

\* line 12: process.env.CHROME_PATH === "/usr/bin/chromium"
isContainer(e) == Has(e, "CHROME_PATH") /\ e["CHROME_PATH"] = "/usr/bin/chromium"

\* lines 9-18, reading the process environment e
buildChromeDevToolsArgs(e) ==
  IF isContainer(e)
  THEN baseArgs \o << "--executable-path=/usr/bin/chromium", "--chrome-arg=--no-sandbox",
                      "--chrome-arg=--disable-setuid-sandbox",
                      "--chrome-arg=--disable-dev-shm-usage", "--chrome-arg=--disable-gpu" >>
  ELSE baseArgs

\* lines 26-40: the array literal
allowedToolsLiteral ==
  << "mcp__chrome-devtools__click", "mcp__chrome-devtools__fill",
     "mcp__chrome-devtools__fill_form", "mcp__chrome-devtools__hover",
     "mcp__chrome-devtools__press_key", "mcp__chrome-devtools__navigate_page",
     "mcp__chrome-devtools__new_page", "mcp__chrome-devtools__list_pages",
     "mcp__chrome-devtools__select_page", "mcp__chrome-devtools__close_page",
     "mcp__chrome-devtools__wait_for", "mcp__chrome-devtools__take_screenshot",
     "mcp__chrome-devtools__take_snapshot" >>

\* lines 42-169: the template literal, abbreviated
SYSTEM_PROMPT == "You are an AllRecipes Finder agent ..."

\* Values CHROME_PATH takes, and the process environments a run starts in.
ChromePaths == { "", "/usr/bin/chromium", "/usr/bin/chromium-browser" }

Envs ==
  LET paths == { EmptyObj } \cup { [CHROME_PATH |-> p] : p \in ChromePaths }
      homes == { EmptyObj, [HOME |-> "/root"] }
  IN  { p @@ h : p \in paths, h \in homes }

InitConfig ==
  /\ env \in Envs
  /\ loaded = FALSE
  /\ CHROME_DEVTOOLS_MCP_CONFIG = EmptyObj
  /\ ALLOWED_TOOLS = <<>>
  /\ options = <<>>
  /\ calls = <<>>
  /\ touched = {}
  /\ launch = EmptyObj

\* Anyone in the process assigns or deletes process.env.CHROME_PATH.
SetEnv ==
  /\ \E e \in Envs :
       /\ Has(e, "HOME") = Has(env, "HOME")
       /\ e # env
       /\ env' = e
  /\ UNCHANGED <<loaded, CHROME_DEVTOOLS_MCP_CONFIG, ALLOWED_TOOLS, options, calls, touched, launch>>
  /\ UNCHANGED streamVars

\* lines 20-40: the module is imported; its top-level statements run once.
ModuleLoad ==
  /\ ~loaded
  /\ loaded' = TRUE
  /\ CHROME_DEVTOOLS_MCP_CONFIG' =
       [type |-> "stdio", command |-> "npx", args |-> buildChromeDevToolsArgs(env)]
  /\ launch' = [env |-> env, args |-> buildChromeDevToolsArgs(env)]
  /\ ALLOWED_TOOLS' = allowedToolsLiteral
  /\ UNCHANGED <<env, options, calls, touched>>
  /\ UNCHANGED streamVars

\* Variant of getOptions that sets mcpServers to undefined instead of omitting it.
getOptionsUndefinedServers(standalone) ==
  [ env |-> env,
    systemPrompt |-> SYSTEM_PROMPT,
    model |-> "haiku",
    allowedTools |-> "ALLOWED_TOOLS",
    maxTurns |-> 50,
    mcpServers |-> IF standalone
                   THEN [chrome_devtools |-> "CHROME_DEVTOOLS_MCP_CONFIG"]
                   ELSE EmptyObj ]

\* lines 171-180: the object literal. An array or object held by reference is
\* the name of the module-level object it refers to.
getOptions(standalone) ==
  [ env |-> env,
    systemPrompt |-> SYSTEM_PROMPT,
    model |-> "haiku",
    allowedTools |-> "ALLOWED_TOOLS",
    maxTurns |-> 50 ]
  @@ (IF standalone
      THEN [mcpServers |-> [chrome_devtools |-> "CHROME_DEVTOOLS_MCP_CONFIG"]]
      ELSE EmptyObj)

\* What a holder reads through an options object o: references followed.
Deref(o, tools, config) ==
  [ env |-> o.env,
    systemPrompt |-> o.systemPrompt,
    model |-> o.model,
    allowedTools |-> tools,
    maxTurns |-> o.maxTurns ]
  @@ (IF Has(o, "mcpServers")
      THEN [mcpServers |-> [chrome_devtools |-> config]]
      ELSE EmptyObj)

\* line 171: `standalone = false` - an omitted argument takes the default.
CallGetOptions ==
  /\ loaded
  /\ Len(options) < MaxCalls
  /\ \E arg \in {"omitted", "false", "true"} :
       LET standalone == IF arg = "omitted" THEN FALSE ELSE arg = "true"
           o == getOptions(standalone)
       IN  /\ options' = Append(options, o)
           /\ calls' = Append(calls, [arg |-> arg, env |-> env, object |-> o,
                                      returned |-> Deref(o, ALLOWED_TOOLS, CHROME_DEVTOOLS_MCP_CONFIG)])
  /\ UNCHANGED <<env, loaded, CHROME_DEVTOOLS_MCP_CONFIG, ALLOWED_TOOLS, touched, launch>>
  /\ UNCHANGED streamVars

\* A holder assigns a variable in the env of the object it was given.
HolderSetsEnv ==
  /\ \E k \in 1..Len(options) :
       /\ ~Has(options[k].env, "NODE_ENV")
       /\ options' = [options EXCEPT ![k].env = [NODE_ENV |-> "test"] @@ @]
       /\ touched' = touched \cup {k}
  /\ UNCHANGED <<env, loaded, CHROME_DEVTOOLS_MCP_CONFIG, ALLOWED_TOOLS, calls, launch>>
  /\ UNCHANGED streamVars

\* A holder adds a tool it misses to the allowedTools array of the object it was given.
HolderPushesTool ==
  /\ \E k \in 1..Len(options) :
       /\ \A j \in 1..Len(ALLOWED_TOOLS) : ALLOWED_TOOLS[j] # "Bash"
       /\ ALLOWED_TOOLS' = Append(ALLOWED_TOOLS, "Bash")
       /\ touched' = touched \cup {k}
  /\ UNCHANGED <<env, loaded, CHROME_DEVTOOLS_MCP_CONFIG, options, calls, launch>>
  /\ UNCHANGED streamVars

\* A holder adds a flag it misses to mcpServers["chrome-devtools"].args of its object.
HolderPushesArg ==
  /\ \E k \in 1..Len(options) :
       /\ Has(options[k], "mcpServers")
       /\ \A j \in 1..Len(CHROME_DEVTOOLS_MCP_CONFIG.args) :
            CHROME_DEVTOOLS_MCP_CONFIG.args[j] # "--viewport=800x600"
       /\ CHROME_DEVTOOLS_MCP_CONFIG' =
            [CHROME_DEVTOOLS_MCP_CONFIG EXCEPT !.args = Append(@, "--viewport=800x600")]
       /\ touched' = touched \cup {k}
  /\ UNCHANGED <<env, loaded, ALLOWED_TOOLS, options, calls, launch>>
  /\ UNCHANGED streamVars


\* The stream specification leaves the module state aside, and conversely.
IdleConfig ==
  /\ env = EmptyObj
  /\ loaded = FALSE
  /\ CHROME_DEVTOOLS_MCP_CONFIG = EmptyObj
  /\ ALLOWED_TOOLS = <<>>
  /\ options = <<>>
  /\ calls = <<>>
  /\ touched = {}
  /\ launch = EmptyObj

IdleStream ==
  /\ rawMsgs = <<>>
  /\ rawFails = FALSE
  /\ requested = 0
  /\ pc = "L183"
  /\ i = 1
  /\ message = EmptyObj
  /\ running = FALSE
  /\ out = <<>>
  /\ outSrc = <<>>
  /\ consumer = "iterating"
  /\ pulls = 0

Init == InitStream /\ IdleConfig

Next == streamAgent

Spec == Init /\ [][Next]_vars

\* The module's own operations: import, environment changes, getOptions calls.
InitOptions == InitConfig /\ IdleStream

NextOptions ==
  \/ SetEnv
  \/ ModuleLoad
  \/ CallGetOptions

SpecOptions == InitOptions /\ [][NextOptions]_vars

\* The same, with holders that modify what they were given.
NextHolders ==
  \/ SetEnv
  \/ ModuleLoad
  \/ CallGetOptions
  \/ HolderSetsEnv
  \/ HolderPushesTool
  \/ HolderPushesArg

SpecHolders == InitOptions /\ [][NextHolders]_vars

\* ------------------------------------------------------------------------
\* Vocabulary of the properties

Min(a, b) == IF a < b THEN a ELSE b

IsPrefix(s, t) == Len(s) <= Len(t) /\ \A j \in 1..Len(s) : s[j] = t[j]

RECURSIVE Flatten(_)
Flatten(ss) == IF ss = <<>> THEN <<>> ELSE Flatten(SubSeq(ss, 1, Len(ss) - 1)) \o ss[Len(ss)]

IsAssistantWithBlocks(m) ==
  m.type = "assistant" /\ Has(m, "message") /\ Has(m.message, "content")

IsSpokenText(b) == b.type = "text" /\ Has(b, "text") /\ b.text # ""

IsToolUse(b) == b.type = "tool_use"

\* One text event per text block with non-empty text, in block order.
TextEventsOf(m) ==
  IF IsAssistantWithBlocks(m)
  THEN LET c == SelectSeq(m.message.content, IsSpokenText)
       IN  [j \in 1..Len(c) |-> [type |-> "text", text |-> c[j].text]]
  ELSE <<>>

\* One tool event per tool_use block, in block order.
ToolEventsOf(m) ==
  IF IsAssistantWithBlocks(m)
  THEN LET c == SelectSeq(m.message.content, IsToolUse)
       IN  [j \in 1..Len(c) |-> IF Has(c[j], "name")
                                THEN [type |-> "tool", name |-> c[j].name]
                                ELSE [type |-> "tool"]]
  ELSE <<>>

\* One usage event if a usage summary is present, an omitted count being zero.
UsageEventsOf(m) ==
  IF Has(m, "message") /\ Has(m.message, "usage")
  THEN << [type |-> "usage",
           input |-> IF Has(m.message.usage, "input_tokens")
                     THEN m.message.usage.input_tokens ELSE 0,
           output |-> IF Has(m.message.usage, "output_tokens")
                      THEN m.message.usage.output_tokens ELSE 0] >>
  ELSE <<>>

\* One result event if a non-empty result is present.
ResultEventsOf(m) ==
  IF Has(m, "result") /\ m.result # ""
  THEN << [type |-> "result", text |-> m.result] >>
  ELSE <<>>

\* The events a raw message stands for, kind by kind.
EventsOf(m) == TextEventsOf(m) \o ToolEventsOf(m) \o UsageEventsOf(m) \o ResultEventsOf(m)

\* The events of the first n raw messages, in message order.
EventsOfFirst(n) == Flatten([k \in 1..n |-> EventsOf(rawMsgs[k])])

\* The events the consumer has received that came from raw message k.
RECURSIVE ReceivedUpTo(_, _)
ReceivedUpTo(n, k) ==
  IF n = 0 THEN <<>>
  ELSE ReceivedUpTo(n - 1, k) \o (IF outSrc[n] = k THEN << out[n] >> ELSE <<>>)

ReceivedFrom(k) == ReceivedUpTo(Len(out), k)

IsDone(ev) == ev.type = "done"

DoneCount == Len(SelectSeq(out, IsDone))

NoDone == \A j \in 1..Len(out) : ~IsDone(out[j])

\* Raw messages the source has delivered so far.
Delivered == Min(requested, Len(rawMsgs))

\* The generator has moved past raw message k.
Processed(k) == k < requested \/ (k = requested /\ pc = "L183")

KindRank(ev) ==
  CASE ev.type = "text" -> 1
    [] ev.type = "tool" -> 2
    [] ev.type = "usage" -> 3
    [] ev.type = "result" -> 4
    [] OTHER -> 5

IsTextEvent(ev) == ev.type = "text"

IsToolEvent(ev) == ev.type = "tool"

\* Raw messages all of whose events the consumer has received.
FullyConsumed ==
  Cardinality({ k \in 1..Delivered : ReceivedFrom(k) = EventsOf(rawMsgs[k]) })

\* ------------------------------------------------------------------------
\* Properties of streamAgent

\* C1: when the source ends normally and the consumer has pulled to the end,
\* it has received exactly one done event and that event is the last one; at
\* no time has it received more than one, or one that is not last.
C1_ExactlyOneDoneLast ==
  /\ DoneCount <= 1
  /\ \A j \in 1..Len(out) : IsDone(out[j]) => j = Len(out)
  /\ consumer = "ended" =>
       /\ ~rawFails
       /\ DoneCount = 1
       /\ IsDone(out[Len(out)])
       /\ SubSeq(out, 1, Len(out) - 1) = EventsOfFirst(Len(rawMsgs))

C1_Witness == consumer = "ended" /\ Len(rawMsgs) >= 2 /\ Len(out) >= 3

\* C2: when the source fails after delivering k messages, the consumer has
\* received exactly the events of those k messages, in order, then the
\* failure: never a done event, never an event of another kind; a run that
\* ends normally ends in done, so the two outcomes differ.
C2_FailurePropagates ==
  /\ rawFails =>
       /\ NoDone
       /\ consumer # "ended"
       /\ \A j \in 1..Len(out) : out[j].type \in {"text", "tool", "usage", "result"}
  /\ consumer = "failed" =>
       /\ rawFails
       /\ pc = "threw"
       /\ out = EventsOfFirst(Len(rawMsgs))
  /\ consumer = "ended" => Len(out) >= 1 /\ IsDone(out[Len(out)])

C2_Witness == consumer = "failed" /\ Len(rawMsgs) >= 1 /\ Len(out) >= 2

\* C3: received events follow raw-message order, and within one raw message
\* text events come first, then tool events, then usage, then result, text
\* and tool events each in block order.
C3_OrderPreserved ==
  /\ \A a, b \in 1..Len(out) :
       (a < b /\ ~IsDone(out[a]) /\ ~IsDone(out[b])) =>
         /\ outSrc[a] <= outSrc[b]
         /\ outSrc[a] = outSrc[b] => KindRank(out[a]) <= KindRank(out[b])
  /\ \A k \in 1..Delivered :
       /\ IsPrefix(SelectSeq(ReceivedFrom(k), IsTextEvent), TextEventsOf(rawMsgs[k]))
       /\ IsPrefix(SelectSeq(ReceivedFrom(k), IsToolEvent), ToolEventsOf(rawMsgs[k]))

C3_Witness ==
  /\ Len(rawMsgs) >= 2
  /\ Len(TextEventsOf(rawMsgs[1])) = 2
  /\ Len(ToolEventsOf(rawMsgs[1])) = 2
  /\ Len(ReceivedFrom(1)) = 6
  /\ Len(ReceivedFrom(2)) >= 1

\* C4: for every raw message the generator has moved past, the events
\* received from it are exactly its text events, tool events, usage event and
\* result event; before that, a prefix of them; and the consumer sees a
\* failure only when the source failed.
C4_EventsPerMessage ==
  /\ \A k \in 1..Delivered :
       /\ IsPrefix(ReceivedFrom(k), EventsOf(rawMsgs[k]))
       /\ Processed(k) => ReceivedFrom(k) = EventsOf(rawMsgs[k])
  /\ \A j \in 1..Len(out) : outSrc[j] \in 0..Delivered
  /\ consumer = "failed" => rawFails /\ requested = Len(rawMsgs) + 1

C4_Witness ==
  /\ consumer = "ended"
  /\ Len(rawMsgs) = 3
  /\ out = << [type |-> "text", text |-> "Hello"],
              [type |-> "tool", name |-> "navigate_page"],
              [type |-> "result", text |-> "Done"],
              [type |-> "done"] >>

\* C5: a raw message is requested only under a pull that comes after all
\* events of the earlier messages were received; every earlier message is
\* fully received; requests run at most one ahead of full consumption.
C5_NoPrefetch ==
  /\ requested >= 1 => pulls >= Len(EventsOfFirst(Min(requested - 1, Len(rawMsgs)))) + 1
  /\ \A k \in 1..Delivered : k < requested => ReceivedFrom(k) = EventsOf(rawMsgs[k])
  /\ requested - FullyConsumed <= 1
  /\ Len(out) <= pulls

C5_Witness ==
  /\ requested = 2
  /\ Len(rawMsgs) >= 2
  /\ Len(ReceivedFrom(1)) >= 2
  /\ Len(ReceivedFrom(2)) = 1
  /\ Len(EventsOf(rawMsgs[2])) >= 2

\* C6: once the consumer has abandoned the iteration before the source
\* signalled its end, no done event has been or will be received, and the
\* generator makes no further request and hands over no further event.
C6_AbandonStops ==
  [][ /\ (consumer' = "abandoned" /\ requested' <= Len(rawMsgs')) =>
           \A j \in 1..Len(out') : ~IsDone(out'[j])
      /\ consumer = "abandoned" =>
           /\ requested' = requested
           /\ out' = out
           /\ consumer' = "abandoned" ]_vars

C6_Witness ==
  /\ consumer = "abandoned"
  /\ requested >= 1
  /\ requested < Len(rawMsgs)
  /\ Len(out) >= 1

\* ------------------------------------------------------------------------
\* Properties of getOptions and buildChromeDevToolsArgs

\* C7: every object getOptions returned has the field mcpServers exactly when
\* the call's argument was true (an omitted argument counting as false), and
\* has the same model, instructions, allow-list and maxTurns = 50 either way.
C7_ServersIffStandalone ==
  \A k \in 1..Len(calls) :
    LET o == calls[k].object IN
    /\ Has(o, "mcpServers") <=> calls[k].arg = "true"
    /\ Has(o, "mcpServers") => DOMAIN o.mcpServers = {"chrome_devtools"}
    /\ DOMAIN o \ {"mcpServers"} = {"env", "systemPrompt", "model", "allowedTools", "maxTurns"}
    /\ o.model = "haiku"
    /\ o.systemPrompt = SYSTEM_PROMPT
    /\ o.allowedTools = "ALLOWED_TOOLS"
    /\ o.maxTurns = 50

C7_Witness ==
  /\ Len(calls) = 2
  /\ calls[1].arg = "omitted"
  /\ calls[2].arg = "true"

\* C8 (as claimed): the args inside what getOptions(true) returns are what
\* buildChromeDevToolsArgs yields for process.env at the time of the call.
C8_ArgsFollowEnvAtCall ==
  \A k \in 1..Len(calls) :
    calls[k].arg = "true" =>
      calls[k].returned.mcpServers.chrome_devtools.args = buildChromeDevToolsArgs(calls[k].env)

\* C9: the launch arguments are the seven base arguments, followed by the
\* five container arguments exactly when CHROME_PATH is "/usr/bin/chromium";
\* nothing else in the environment matters.
C9_LaunchArgs ==
  loaded =>
    /\ launch.args =
         IF "CHROME_PATH" \in DOMAIN launch.env /\ launch.env["CHROME_PATH"] = "/usr/bin/chromium"
         THEN << "-y", "chrome-devtools-mcp@latest", "--headless", "--isolated",
                 "--no-category-emulation", "--no-category-performance", "--no-category-network",
                 "--executable-path=/usr/bin/chromium", "--chrome-arg=--no-sandbox",
                 "--chrome-arg=--disable-setuid-sandbox",
                 "--chrome-arg=--disable-dev-shm-usage", "--chrome-arg=--disable-gpu" >>
         ELSE << "-y", "chrome-devtools-mcp@latest", "--headless", "--isolated",
                 "--no-category-emulation", "--no-category-performance", "--no-category-network" >>
    /\ SubSeq(launch.args, 1, 7) =
         << "-y", "chrome-devtools-mcp@latest", "--headless", "--isolated",
            "--no-category-emulation", "--no-category-performance", "--no-category-network" >>

C9_Witness ==
  /\ loaded
  /\ Has(launch.env, "HOME")
  /\ Has(launch.env, "CHROME_PATH")
  /\ launch.env["CHROME_PATH"] = "/usr/bin/chromium"
  /\ Len(launch.args) = 12

\* C10 (as claimed): whatever holders do to the objects they were given, every
\* object whose own holder changed nothing still shows the env of its call,
\* the thirteen allowed tools and the launch arguments of the module.
C10_NoSharedState ==
  \A k \in 1..Len(options) :
    k \notin touched =>
      LET seen == Deref(options[k], ALLOWED_TOOLS, CHROME_DEVTOOLS_MCP_CONFIG) IN
      /\ seen.env = calls[k].env
      /\ seen.allowedTools = allowedToolsLiteral
      /\ Has(seen, "mcpServers") => seen.mcpServers.chrome_devtools.args = launch.args

====
